---- MODULE Spec2Model ----
(***************************************************************************)
(* Model of CDACNN/model_DA.py: the DenseNet topology assembly, the dense  *)
(* block / dense layer forward wiring, and the pretrained-weight loader    *)
(* with its legacy key rewriting.                                          *)
(*                                                                         *)
(* Strings that the code matches with a regular expression are modelled as *)
(* sequences of tokens; the token "." is the dot of the dotted name, so    *)
(* "denselayer2.conv.1.weight" is                                          *)
(*   << "denselayer", "2", ".", "conv", ".", "1", ".", "weight" >>         *)
(* and concatenating two strings is concatenating their token sequences.   *)
(***************************************************************************)
EXTENDS Integers, Sequences, FiniteSets, TLC

VARIABLES
    \* ---- load_state_dict(model, weights_path) ----
    lpc,          \* position in load_state_dict
    weights,      \* contents of the file at weights_path: sequence of <<key, tensor>>
    num_classes,  \* model.classifier.out_features
    params,       \* the network's own parameter store: name -> tensor
    state_dict,   \* the local mapping being pruned and rewritten
    keys,         \* list(state_dict.keys()), the snapshot the loop iterates
    idx,          \* position of the loop in keys
    err,          \* the exception that left load_state_dict, or "none"
    missing_keys, \* the missing keys the structural load error names
    strict,       \* the mode of the merge: "unset" before it, then "strict" or "lenient"
    printed       \* the success message was printed

lvars == <<lpc, weights, num_classes, params, state_dict, keys, idx, err,
           missing_keys, strict, printed>>

VARIABLES
    \* ---- _DenseBlock(...) and its forward(init_features) ----
    bpc,          \* position: "new", "built", "forward", "done", "raised"
    bcfg,         \* constructor arguments of the block
    benv,         \* execution context of the forward pass
    layers,       \* the block's registered layers, in registration order
    features,     \* the list `features` of _DenseBlock.forward
    calls,        \* one record per _DenseLayer.forward invocation, in order
    bout,         \* the tensor _DenseBlock.forward returned, or NoTensor
    berr          \* the exception that left the forward pass, or "none"

bvars == <<bpc, bcfg, benv, layers, features, calls, bout, berr>>

VARIABLES
    \* ---- DenseNet.__init__ and the channel flow of DenseNet.forward ----
    npc,          \* position: "new", "body", "head", "built", "forward", "done", "raised"
    ncfg,         \* constructor arguments of the network
    ni,           \* loop index i over block_config
    num_features, \* the running channel count of __init__
    modules,      \* self.features, in registration order
    classifier,   \* self.classifier, or NoModule
    nfpos,        \* next module of self.features the forward pass applies
    nx            \* channel count of the tensor flowing through forward

nvars == <<npc, ncfg, ni, num_features, modules, classifier, nfpos, nx>>

vars == <<lvars, bvars, nvars>>

-----------------------------------------------------------------------------
(* Bounds *)

\* keys in a weight file
MaxKeys == 3
\* layers of a dense block, width of its input, growth rate, bottleneck factor
MaxLayers == 3
MaxInputC == 3
MaxGrowth == 2
MaxBnSize == 2
\* layers per block, initial feature width of a network
MaxBlockLayers == 2
MaxInit == 3

-----------------------------------------------------------------------------
(* Program constants *)

PretrainClasses == 1000
BnSize == 4
GrowthRate == 32
InputChannels == 3
NumBlocks == 4

-----------------------------------------------------------------------------
(* Dotted names as token sequences *)

Digits == {"0", "1", "2", "3", "4", "5", "6", "7", "8", "9"}
Mods == {"norm", "relu", "conv"}
Indices == {"1", "2"}
Suffixes == {"weight", "bias", "running_mean", "running_var"}

\* pattern.match(key): ^(.*denselayer\d+\.(?:norm|relu|conv))\.((?:[12])\.(?:weight|...))$
PatternMatch(key) ==
    LET n == Len(key) IN
    /\ n >= 8
    /\ key[n] \in Suffixes
    /\ key[n - 1] = "."
    /\ key[n - 2] \in Indices
    /\ key[n - 3] = "."
    /\ key[n - 4] \in Mods
    /\ key[n - 5] = "."
    /\ \E j \in 1..(n - 7) :
          /\ key[j] = "denselayer"
          /\ \A m \in (j + 1)..(n - 6) : key[m] \in Digits

Group1(key) == SubSeq(key, 1, Len(key) - 4)
Group2(key) == SubSeq(key, Len(key) - 2, Len(key))

\* new_key = res.group(1) + res.group(2)
NewKey(key) == Group1(key) \o Group2(key)

\* "classifier" in key
HasClassifier(key) == \E i \in 1..Len(key) : key[i] = "classifier"

-----------------------------------------------------------------------------
(* The keys and tensors the loader is exercised with *)

DenseLayer1 == <<"features", ".", "denseblock1", ".", "denselayer", "1">>

KConvNew == DenseLayer1 \o <<".", "conv", "1", ".", "weight">>
KConvLegacy == DenseLayer1 \o <<".", "conv", ".", "1", ".", "weight">>
KNormLegacy == DenseLayer1 \o <<".", "norm", ".", "2", ".", "running_var">>
KConvIndex3 == DenseLayer1 \o <<".", "conv", ".", "3", ".", "weight">>
KClsWeight == <<"classifier", ".", "weight">>
KClsBias == <<"classifier", ".", "bias">>
KClsLegacy == <<"classifier", ".", "denselayer", "1", ".", "conv", ".", "1", ".", "weight">>

KeyUniverse == {KConvNew, KConvLegacy, KNormLegacy, KConvIndex3,
                KClsWeight, KClsBias, KClsLegacy}

\* named parameters of the target network: a dense layer's conv1 and the head
ParamNames == {KConvNew, KClsWeight, KClsBias}

ClassCounts == {2, PretrainClasses}

\* leading dimension of a parameter: out_channels of conv1, out_features of the head
ShapeOf(name, nc) == IF HasClassifier(name) THEN nc ELSE BnSize * GrowthRate

\* tensors found in weight files: two dense-layer tensors and one 1000-way head tensor
FileTensors == {[id |-> 1, shape |-> BnSize * GrowthRate],
                [id |-> 2, shape |-> BnSize * GrowthRate],
                [id |-> 3, shape |-> PretrainClasses]}

\* freshly initialised parameter of the constructed network
FreshTensor(name, nc) == [id |-> 0, shape |-> ShapeOf(name, nc)]

RECURSIVE DistinctKeys(_)
DistinctKeys(s) ==
    IF Len(s) <= 1 THEN TRUE
    ELSE /\ \A i \in 2..Len(s) : s[i][1] # s[1][1]
         /\ DistinctKeys(Tail(s))

WeightFiles ==
    {w \in UNION {[1..n -> KeyUniverse \X FileTensors] : n \in 0..MaxKeys} :
        DistinctKeys(w)}

Remove(d, k) == [x \in (DOMAIN d) \ {k} |-> d[x]]
Put(d, k, v) == [x \in (DOMAIN d) \cup {k} |-> IF x = k THEN v ELSE d[x]]
EmptyDict == [x \in {} |-> 0]

SeqToDict(w) == [k \in {w[i][1] : i \in 1..Len(w)} |->
                    (CHOOSE p \in {w[i] : i \in 1..Len(w)} : p[1] = k)[2]]

-----------------------------------------------------------------------------
(* load_state_dict *)

InitLoad ==
    /\ lpc = "start"
    /\ weights \in WeightFiles
    /\ num_classes \in ClassCounts
    /\ params = [n \in ParamNames |-> FreshTensor(n, num_classes)]
    /\ state_dict = EmptyDict
    /\ keys = <<>>
    /\ idx = 0
    /\ err = "none"
    /\ missing_keys = {}
    /\ strict = "unset"
    /\ printed = FALSE

\* load_fc = num_classes == 1000
LoadFc(nc) == nc = PretrainClasses

\* state_dict = torch.load(weights_path); for key in list(state_dict.keys()):
LoadFile ==
    /\ lpc = "start"
    /\ state_dict' = SeqToDict(weights)
    /\ keys' = [i \in 1..Len(weights) |-> weights[i][1]]
    /\ idx' = 1
    /\ lpc' = "loop"
    /\ UNCHANGED <<weights, num_classes, params, err, missing_keys, strict, printed>>
    /\ UNCHANGED <<bvars, nvars>>

\* the mapping after the classifier test of one loop iteration
Pruned(d, key, load_fc) ==
    IF ~load_fc /\ HasClassifier(key) THEN Remove(d, key) ELSE d

\* one iteration of the loop body
LoopBody ==
    /\ lpc = "loop"
    /\ idx <= Len(keys)
    /\ LET key == keys[idx]
           d1 == Pruned(state_dict, key, LoadFc(num_classes))
       IN IF PatternMatch(key)
          THEN IF key \in DOMAIN d1
               THEN /\ state_dict' = Remove(Put(d1, NewKey(key), d1[key]), key)
                    /\ idx' = idx + 1
                    /\ UNCHANGED <<lpc, err>>
               ELSE \* state_dict[key] of a key the prune has deleted
                    /\ state_dict' = d1
                    /\ lpc' = "raised"
                    /\ err' = "KeyError"
                    /\ UNCHANGED idx
          ELSE /\ state_dict' = d1
               /\ idx' = idx + 1
               /\ UNCHANGED <<lpc, err>>
    /\ UNCHANGED <<weights, num_classes, params, keys, missing_keys, strict, printed>>
    /\ UNCHANGED <<bvars, nvars>>

StrictNever(load_fc) == FALSE

\* strict=load_fc
StrictMode(load_fc) == load_fc

\* nn.Module.load_state_dict: the parameters a mapped tensor of the right shape reaches
Copied(d, p) ==
    [n \in DOMAIN p |->
        IF n \in DOMAIN d /\ d[n].shape = p[n].shape THEN d[n] ELSE p[n]]

Mismatched(d, p) == {n \in (DOMAIN p) \cap (DOMAIN d) : d[n].shape # p[n].shape}
Missing(d, p) == (DOMAIN p) \ (DOMAIN d)
Unexpected(d, p) == (DOMAIN d) \ (DOMAIN p)

\* model.load_state_dict(state_dict, strict=load_fc); print(...)
Merge ==
    /\ lpc = "loop"
    /\ idx > Len(keys)
    /\ LET s == StrictMode(LoadFc(num_classes))
           fails == \/ Mismatched(state_dict, params) # {}
                    \/ s /\ Missing(state_dict, params) # {}
                    \/ s /\ Unexpected(state_dict, params) # {}
       IN /\ strict' = (IF s THEN "strict" ELSE "lenient")
          /\ params' = Copied(state_dict, params)
          /\ IF fails
             THEN /\ lpc' = "raised"
                  /\ err' = "RuntimeError"
                  /\ missing_keys' = IF s THEN Missing(state_dict, params) ELSE {}
                  /\ UNCHANGED printed
             ELSE /\ lpc' = "done"
                  /\ printed' = TRUE
                  /\ UNCHANGED <<err, missing_keys>>
    /\ UNCHANGED <<weights, num_classes, state_dict, keys, idx>>
    /\ UNCHANGED <<bvars, nvars>>

-----------------------------------------------------------------------------
(* _DenseLayer *)

NoTensor == [id |-> -1, ch |-> 0, grad |-> FALSE, parts |-> <<>>]

RECURSIVE SumCh(_)
\* channel count of torch.cat(inputs, 1)
SumCh(ts) == IF ts = <<>> THEN 0 ELSE Head(ts).ch + SumCh(Tail(ts))

RECURSIVE any_requires_grad(_)
\* for tensor in inputs: if tensor.requires_grad: return True; return False
any_requires_grad(inputs) ==
    IF inputs = <<>> THEN FALSE
    ELSE IF Head(inputs).grad THEN TRUE
    ELSE any_requires_grad(Tail(inputs))

\* _DenseLayer.__init__: the registered sub-modules and their widths
DenseLayerInit(input_c, growth_rate, bn_size, drop_rate, memory_efficient) ==
    [registered |-> <<"norm1", "relu1", "conv1", "norm2", "relu2", "conv2", "ca", "sa">>,
     norm1 |-> input_c,
     conv1 |-> [in |-> input_c, out |-> bn_size * growth_rate],
     norm2 |-> bn_size * growth_rate,
     conv2 |-> [in |-> bn_size * growth_rate, out |-> growth_rate],
     ca |-> growth_rate,
     drop_rate |-> drop_rate,
     memory_efficient |-> memory_efficient]

UseCheckpointIgnoringGrad(layer, prev_features) == layer.memory_efficient

\* if self.memory_efficient and self.any_requires_grad(prev_features):
UseCheckpoint(layer, prev_features) ==
    layer.memory_efficient /\ any_requires_grad(prev_features)

TailOpsWithAttention(layer) ==
    <<"norm2", "relu2", "conv2", "ca", "sa">>
        \o (IF layer.drop_rate > 0 THEN <<"dropout">> ELSE <<>>)

\* the sub-modules forward applies to bottleneck_output, in order
TailOps(layer) ==
    <<"norm2", "relu2", "conv2">>
        \o (IF layer.drop_rate > 0 THEN <<"dropout">> ELSE <<>>)

\* requires_grad of a tensor computed from `inputs` by modules with parameters
OutRequiresGrad(env, inputs) ==
    CASE env.grad = "no_grad" -> FALSE
      [] env.grad = "train" -> TRUE
      [] OTHER -> \E i \in 1..Len(inputs) : inputs[i].grad

\* _DenseLayer.forward(inputs), the output tensor tagged `id`
LayerForward(layer, prev_features, env, id) ==
    LET ckpt == UseCheckpoint(layer, prev_features)
        cat == SumCh(prev_features)
        tail == TailOps(layer)
        widths_ok == /\ cat = layer.norm1
                     /\ cat = layer.conv1.in
                     /\ layer.conv1.out = layer.norm2
                     /\ layer.norm2 = layer.conv2.in
    IN IF ckpt /\ env.scripting
       THEN [err |-> "memory efficient not supported in JIT", path |-> "none",
             ops |-> <<>>, out |-> NoTensor]
       ELSE IF ~widths_ok
       THEN [err |-> "channel mismatch", path |-> IF ckpt THEN "checkpoint" ELSE "direct",
             ops |-> <<>>, out |-> NoTensor]
       ELSE [err |-> "none",
             path |-> IF ckpt THEN "checkpoint" ELSE "direct",
             ops |-> <<"cat", "norm1", "relu1", "conv1">> \o tail,
             out |-> [id |-> id, ch |-> layer.conv2.out,
                      grad |-> OutRequiresGrad(env, prev_features), parts |-> <<id>>]]

-----------------------------------------------------------------------------
(* _DenseBlock *)

LayerInputCOffByOne(input_c, i, growth_rate) == input_c + (i + 1) * growth_rate

\* _DenseLayer(input_c + i * growth_rate, ...)
LayerInputC(input_c, i, growth_rate) == input_c + i * growth_rate

\* _DenseBlock.__init__: denselayer1 .. denselayerN, registered in this order
DenseBlockInit(num_layers, input_c, bn_size, growth_rate, drop_rate, memory_efficient) ==
    [k \in 1..num_layers |->
        [name |-> k,
         layer |-> DenseLayerInit(LayerInputC(input_c, k - 1, growth_rate),
                                  growth_rate, bn_size, drop_rate, memory_efficient)]]

AppendFront(fs, new_features) == <<new_features>> \o fs

\* features.append(new_features)
AppendFeature(fs, new_features) == Append(fs, new_features)

\* torch.cat(features, 1)
Cat(fs) ==
    [id |-> -2, ch |-> SumCh(fs),
     grad |-> \E i \in 1..Len(fs) : fs[i].grad,
     parts |-> [i \in 1..Len(fs) |-> fs[i].id]]

RECURSIVE RunLayers(_, _, _, _)
\* the loop of _DenseBlock.forward from layer k on: the final list, or <<>> on an error
RunLayers(ls, fs, env, k) ==
    IF k > Len(ls) THEN fs
    ELSE LET r == LayerForward(ls[k].layer, fs, env, ls[k].name)
         IN IF r.err # "none" THEN <<>>
            ELSE RunLayers(ls, AppendFeature(fs, r.out), env, k + 1)

\* channel count _DenseBlock.forward returns for an input of ch channels, -1 on an error
BlockOutChannels(ls, ch, env) ==
    LET fs == RunLayers(ls, <<[id |-> 0, ch |-> ch, grad |-> FALSE, parts |-> <<0>>]>>, env, 1)
    IN IF fs = <<>> THEN -1 ELSE Cat(fs).ch

GradModes == {"no_grad", "train", "frozen"}

BlockConfigs ==
    [num_layers : 0..MaxLayers, input_c : 1..MaxInputC, bn_size : 1..MaxBnSize,
     growth_rate : 1..MaxGrowth, drop_rate : {0, 1}, memory_efficient : BOOLEAN]

Envs == [scripting : BOOLEAN, grad : GradModes, x_grad : BOOLEAN]

InitBlock ==
    /\ bpc = "new"
    /\ bcfg \in BlockConfigs
    /\ benv \in Envs
    /\ layers = <<>>
    /\ features = <<>>
    /\ calls = <<>>
    /\ bout = NoTensor
    /\ berr = "none"

\* _DenseBlock(num_layers, input_c, bn_size, growth_rate, drop_rate, memory_efficient)
BlockConstruct ==
    /\ bpc = "new"
    /\ layers' = DenseBlockInit(bcfg.num_layers, bcfg.input_c, bcfg.bn_size,
                                bcfg.growth_rate, bcfg.drop_rate, bcfg.memory_efficient)
    /\ bpc' = "built"
    /\ UNCHANGED <<bcfg, benv, features, calls, bout, berr>>
    /\ UNCHANGED <<lvars, nvars>>

\* features = [init_features], for an input of the width the block was built for
BlockForwardEnter ==
    /\ bpc = "built"
    /\ features' = <<[id |-> 0, ch |-> bcfg.input_c, grad |-> benv.x_grad, parts |-> <<0>>]>>
    /\ bpc' = "forward"
    /\ UNCHANGED <<bcfg, benv, layers, calls, bout, berr>>
    /\ UNCHANGED <<lvars, nvars>>

\* one iteration of: for name, layer in self.items()
BlockForwardLayer ==
    /\ bpc = "forward"
    /\ Len(calls) < Len(layers)
    /\ LET k == Len(calls) + 1
           r == LayerForward(layers[k].layer, features, benv, layers[k].name)
       IN /\ calls' = Append(calls, [layer |-> layers[k].name, inputs |-> features,
                                     err |-> r.err, path |-> r.path, ops |-> r.ops,
                                     out |-> r.out])
          /\ IF r.err = "none"
             THEN /\ features' = AppendFeature(features, r.out)
                  /\ UNCHANGED <<bpc, berr>>
             ELSE /\ bpc' = "raised"
                  /\ berr' = r.err
                  /\ UNCHANGED features
    /\ UNCHANGED <<bcfg, benv, layers, bout>>
    /\ UNCHANGED <<lvars, nvars>>

\* return torch.cat(features, 1)
BlockForwardReturn ==
    /\ bpc = "forward"
    /\ Len(calls) = Len(layers)
    /\ bout' = Cat(features)
    /\ bpc' = "done"
    /\ UNCHANGED <<bcfg, benv, layers, features, calls, berr>>
    /\ UNCHANGED <<lvars, nvars>>

NextBlock == BlockConstruct \/ BlockForwardEnter \/ BlockForwardLayer \/ BlockForwardReturn

-----------------------------------------------------------------------------
(* _Transition and DenseNet *)

\* a module of self.features; the fields a kind does not use are 0 or <<>>
Module(kind, name, in, out, ls) ==
    [kind |-> kind, name |-> name, in |-> in, out |-> out, layers |-> ls]

\* the four stem modules: conv0, norm0, relu0, pool0
Stem(num_init_features) ==
    <<Module("conv", <<"conv", 0>>, InputChannels, num_init_features, <<>>),
      Module("norm", <<"norm", 0>>, num_init_features, num_init_features, <<>>),
      Module("relu", <<"relu", 0>>, 0, 0, <<>>),
      Module("pool", <<"pool", 0>>, 0, 0, <<>>)>>

\* _Transition(input_c, output_c): norm(input_c), relu, conv(input_c -> output_c), pool
TransitionInit(name, input_c, output_c) ==
    Module("transition", name, input_c, output_c, <<>>)

HalvedRoundUp(n) == (n + 1) \div 2

\* num_features // 2
Halved(n) == n \div 2

HasTransitionAlways(i, len) == TRUE

\* if i != len(block_config) - 1
HasTransition(i, len) == i # len - 1

\* num_features + num_layers * growth_rate
Grown(n, num_layers, growth_rate) == n + num_layers * growth_rate

NetConfigs ==
    [growth_rate : 1..MaxGrowth,
     block_config : [1..NumBlocks -> 0..MaxBlockLayers],
     num_init_features : 1..MaxInit,
     num_classes : ClassCounts]

\* context of the forward pass the channel flow is followed in
EvalEnv == [scripting |-> FALSE, grad |-> "no_grad", x_grad |-> FALSE]

InitNet ==
    /\ npc = "new"
    /\ ncfg \in NetConfigs
    /\ ni = 0
    /\ num_features = 0
    /\ modules = <<>>
    /\ classifier = <<>>
    /\ nfpos = 0
    /\ nx = 0

\* self.features = nn.Sequential(stem); num_features = num_init_features
NetStem ==
    /\ npc = "new"
    /\ modules' = Stem(ncfg.num_init_features)
    /\ num_features' = ncfg.num_init_features
    /\ ni' = 0
    /\ npc' = "body"
    /\ UNCHANGED <<ncfg, classifier, nfpos, nx>>
    /\ UNCHANGED <<lvars, bvars>>

\* one iteration of: for i, num_layers in enumerate(block_config)
NetBlock ==
    /\ npc = "body"
    /\ ni < Len(ncfg.block_config)
    /\ LET num_layers == ncfg.block_config[ni + 1]
           block == Module("denseblock", <<"denseblock", ni + 1>>, num_features, 0,
                           DenseBlockInit(num_layers, num_features, BnSize,
                                          ncfg.growth_rate, 0, FALSE))
           grown == Grown(num_features, num_layers, ncfg.growth_rate)
       IN IF HasTransition(ni, Len(ncfg.block_config))
          THEN /\ modules' = modules \o
                     <<block, TransitionInit(<<"transition", ni + 1>>, grown, Halved(grown))>>
               /\ num_features' = Halved(grown)
          ELSE /\ modules' = Append(modules, block)
               /\ num_features' = grown
    /\ ni' = ni + 1
    /\ UNCHANGED <<npc, ncfg, classifier, nfpos, nx>>
    /\ UNCHANGED <<lvars, bvars>>

\* norm5 = BatchNorm2d(num_features); self.classifier = nn.Linear(num_features, num_classes)
NetHead ==
    /\ npc = "body"
    /\ ni = Len(ncfg.block_config)
    /\ modules' = Append(modules,
                         Module("norm", <<"norm", 5>>, num_features, num_features, <<>>))
    /\ classifier' = [in_features |-> num_features, out_features |-> ncfg.num_classes]
    /\ npc' = "built"
    /\ UNCHANGED <<ncfg, ni, num_features, nfpos, nx>>
    /\ UNCHANGED <<lvars, bvars>>

\* channel count a module of self.features returns for ch channels, -1 when it rejects them
Apply(m, ch) ==
    CASE m.kind = "conv" -> IF ch = m.in THEN m.out ELSE -1
      [] m.kind = "norm" -> IF ch = m.in THEN ch ELSE -1
      [] m.kind = "transition" -> IF ch = m.in THEN m.out ELSE -1
      [] m.kind = "denseblock" -> BlockOutChannels(m.layers, ch, EvalEnv)
      [] OTHER -> ch

\* DenseNet.forward on an image batch: features = self.features(x), module by module
NetForwardEnter ==
    /\ npc = "built"
    /\ nx' = InputChannels
    /\ nfpos' = 1
    /\ npc' = "forward"
    /\ UNCHANGED <<ncfg, ni, num_features, modules, classifier>>
    /\ UNCHANGED <<lvars, bvars>>

NetForwardModule ==
    /\ npc = "forward"
    /\ nfpos <= Len(modules)
    /\ LET ch == Apply(modules[nfpos], nx)
       IN IF ch < 0
          THEN /\ npc' = "raised"
               /\ UNCHANGED <<nx, nfpos>>
          ELSE /\ nx' = ch
               /\ nfpos' = nfpos + 1
               /\ UNCHANGED npc
    /\ UNCHANGED <<ncfg, ni, num_features, modules, classifier>>
    /\ UNCHANGED <<lvars, bvars>>

\* relu, adaptive_avg_pool2d, flatten, self.classifier(out)
NetForwardHead ==
    /\ npc = "forward"
    /\ nfpos > Len(modules)
    /\ IF nx = classifier.in_features
       THEN /\ nx' = classifier.out_features
            /\ npc' = "done"
       ELSE /\ npc' = "raised"
            /\ UNCHANGED nx
    /\ UNCHANGED <<ncfg, ni, num_features, modules, classifier, nfpos>>
    /\ UNCHANGED <<lvars, bvars>>

NextNet == NetStem \/ NetBlock \/ NetHead \/ NetForwardEnter \/ NetForwardModule
              \/ NetForwardHead

-----------------------------------------------------------------------------
(* Idle values of the parts a specification does not exercise *)

IdleLoad ==
    /\ lpc = "idle" /\ weights = <<>> /\ num_classes = 0 /\ params = EmptyDict
    /\ state_dict = EmptyDict /\ keys = <<>> /\ idx = 0 /\ err = "none"
    /\ missing_keys = {} /\ strict = "unset" /\ printed = FALSE

IdleBlock ==
    /\ bpc = "idle" /\ bcfg = <<>> /\ benv = <<>> /\ layers = <<>> /\ features = <<>>
    /\ calls = <<>> /\ bout = NoTensor /\ berr = "none"

IdleNet ==
    /\ npc = "idle" /\ ncfg = <<>> /\ ni = 0 /\ num_features = 0 /\ modules = <<>>
    /\ classifier = <<>> /\ nfpos = 0 /\ nx = 0

NextLoad == LoadFile \/ LoopBody \/ Merge

InitLoadSpec == InitLoad /\ IdleBlock /\ IdleNet

SpecLoad == InitLoadSpec /\ [][NextLoad]_vars

InitBlockSpec == InitBlock /\ IdleLoad /\ IdleNet

SpecBlock == InitBlockSpec /\ [][NextBlock]_vars

InitNetSpec == InitNet /\ IdleLoad /\ IdleBlock

SpecNet == InitNetSpec /\ [][NextNet]_vars

-----------------------------------------------------------------------------
(* Properties of load_state_dict, checked under SpecLoad *)

FileKeys == {weights[i][1] : i \in 1..Len(weights)}
FileTensor(k) == (CHOOSE p \in {weights[i] : i \in 1..Len(weights)} : p[1] = k)[2]

\* the key with the dot between the module name and the index taken out
DotRemoved(k) == [i \in 1..(Len(k) - 1) |-> IF i < Len(k) - 3 THEN k[i] ELSE k[i + 1]]

LoopEnded == lpc \in {"done", "raised"} \/ (lpc = "loop" /\ idx > Len(keys))
LoadEnded == lpc \in {"done", "raised"}
PrunedByHead(k) == num_classes # PretrainClasses /\ HasClassifier(k)

\* C1: once the loop has ended, every legacy key of the file is gone from the
\* mapping and its tensor is stored under the key with the dot removed, and every
\* other key (that the head pruning did not delete) still holds its tensor.
C1_RewriteAsClaimed ==
    LoopEnded =>
        \A k \in FileKeys :
            IF PatternMatch(k)
            THEN /\ k \notin DOMAIN state_dict
                 /\ DotRemoved(k) \in DOMAIN state_dict
                 /\ state_dict[DotRemoved(k)] = FileTensor(k)
            ELSE ~PrunedByHead(k) =>
                    /\ k \in DOMAIN state_dict
                    /\ state_dict[k] = FileTensor(k)

\* C2: on a network whose head is not 1000 wide, every load ends in success, the
\* mapping handed to the merge has no classifier key, and classifier.weight and
\* classifier.bias keep the values they had before the load.
C2_HeadUntouchedAsClaimed ==
    (num_classes # PretrainClasses /\ LoadEnded) =>
        /\ lpc = "done"
        /\ printed
        /\ \A k \in DOMAIN state_dict : ~HasClassifier(k)
        /\ params[KClsWeight] = FreshTensor(KClsWeight, num_classes)
        /\ params[KClsBias] = FreshTensor(KClsBias, num_classes)

\* C3: the merge is strict exactly when the head is 1000 wide; a strict merge of a
\* mapping that lacks a parameter name of the network raises the load error, which
\* names the missing keys, and prints nothing; a lenient merge never fails for
\* missing keys: it succeeds whenever the mapped tensors fit.
C3_StrictExactlyWhen1000 ==
    /\ strict # "unset" => (strict = "strict" <=> num_classes = PretrainClasses)
    /\ (strict = "strict" /\ ParamNames \ DOMAIN state_dict # {}) =>
            /\ lpc = "raised"
            /\ err = "RuntimeError"
            /\ missing_keys = ParamNames \ DOMAIN state_dict
            /\ ~printed
    /\ num_classes # PretrainClasses => missing_keys = {}
    /\ (strict = "lenient"
        /\ \A n \in ParamNames \cap DOMAIN state_dict :
               state_dict[n].shape = ShapeOf(n, num_classes)) =>
            /\ lpc = "done"
            /\ printed

C3_Witness ==
    /\ num_classes = PretrainClasses
    /\ lpc = "raised"
    /\ err = "RuntimeError"
    /\ KConvNew \in missing_keys
    /\ KConvIndex3 \in DOMAIN state_dict

\* C8: on a network whose head is not 1000 wide the prune-and-rewrite loop never
\* looks a deleted classifier key up again: it raises no KeyError, and when it has
\* ended no key of the mapping contains "classifier".
C8_PruneThenRewriteAsClaimed ==
    num_classes # PretrainClasses =>
        /\ err # "KeyError"
        /\ LoopEnded => \A k \in DOMAIN state_dict : ~HasClassifier(k)

-----------------------------------------------------------------------------
(* Properties of _DenseBlock and _DenseLayer, checked under SpecBlock *)

Ids(ts) == [i \in 1..Len(ts) |-> ts[i].id]
UpTo(n) == [i \in 1..(n + 1) |-> i - 1]
JitError == "memory efficient not supported in JIT"

\* C4: after k layers have run the accumulated features have input_c + k * growth_rate
\* channels; every layer is handed exactly the channels it was constructed for, and
\* the block returns input_c + num_layers * growth_rate channels.
C4_ChannelGrowth ==
    /\ berr # "channel mismatch"
    /\ bpc = "forward" =>
          SumCh(features) = bcfg.input_c + Len(calls) * bcfg.growth_rate
    /\ \A k \in 1..Len(calls) :
          /\ SumCh(calls[k].inputs) = bcfg.input_c + (k - 1) * bcfg.growth_rate
          /\ SumCh(calls[k].inputs) = layers[k].layer.norm1
          /\ SumCh(calls[k].inputs) = layers[k].layer.conv1.in
    /\ bpc = "done" =>
          bout.ch = bcfg.input_c + bcfg.num_layers * bcfg.growth_rate

C4_Witness ==
    /\ bpc = "done"
    /\ bcfg.num_layers >= 2
    /\ bcfg.growth_rate >= 2
    /\ bout.ch = bcfg.input_c + bcfg.num_layers * bcfg.growth_rate

\* C7: a layer's forward raises exactly when it is memory efficient, some input
\* requires gradient and the pass runs under scripting, and then yields no output;
\* memory efficient with a gradient input outside scripting takes the checkpoint
\* path; every other call takes the direct path and raises nothing.
C7_JitErrorExactly ==
    \A k \in 1..Len(calls) :
        LET c == calls[k]
            l == layers[k].layer
            anyg == \E i \in 1..Len(c.inputs) : c.inputs[i].grad
        IN /\ c.err = JitError <=> (l.memory_efficient /\ anyg /\ benv.scripting)
           /\ c.err = JitError =>
                 /\ c.out = NoTensor
                 /\ bpc = "raised"
                 /\ bout = NoTensor
           /\ (l.memory_efficient /\ anyg /\ ~benv.scripting) =>
                 /\ c.path = "checkpoint"
                 /\ c.err = "none"
           /\ ~(l.memory_efficient /\ anyg) =>
                 /\ c.path = "direct"
                 /\ c.err = "none"

C7_Witness ==
    /\ bpc = "raised"
    /\ berr = JitError
    /\ Len(calls) >= 2
    /\ calls[1].path = "direct"

\* C9: the layers run in construction order; the k-th call is made on the initial
\* input followed by the outputs of layers 1..k-1 in that order, and the block
\* returns the concatenation of the input and all layer outputs in that order.
C9_LayerOrder ==
    /\ \A k \in 1..Len(calls) :
          /\ calls[k].layer = k
          /\ Ids(calls[k].inputs) = UpTo(k - 1)
          /\ calls[k].err = "none" => calls[k].out.id = k
    /\ bpc = "forward" => Ids(features) = UpTo(Len(calls))
    /\ bpc = "done" =>
          /\ Len(calls) = bcfg.num_layers
          /\ bout.parts = UpTo(bcfg.num_layers)

C9_Witness ==
    /\ bpc = "done"
    /\ Len(calls) >= 3
    /\ bout.parts = <<0, 1, 2, 3>>

\* C10: every layer registers ca and sa, and no call of forward applies either: the
\* call applies norm2, relu2, conv2 to the bottleneck, then dropout only when
\* drop_rate > 0, and returns growth_rate channels.
C10_AttentionNeverInvoked ==
    /\ \A k \in 1..Len(layers) :
          {"ca", "sa"} \subseteq
              {layers[k].layer.registered[j] : j \in 1..Len(layers[k].layer.registered)}
    /\ \A k \in 1..Len(calls) :
          LET c == calls[k] IN
          c.err = "none" =>
             /\ \A j \in 1..Len(c.ops) : c.ops[j] \notin {"ca", "sa"}
             /\ c.ops = <<"cat", "norm1", "relu1", "conv1", "norm2", "relu2", "conv2">>
                           \o (IF bcfg.drop_rate > 0 THEN <<"dropout">> ELSE <<>>)
             /\ c.out.ch = bcfg.growth_rate

C10_Witness ==
    /\ bpc = "done"
    /\ Len(calls) >= 1
    /\ bcfg.drop_rate > 0
    /\ \E k \in 1..Len(calls) : calls[k].path = "checkpoint"
    /\ \E k \in 1..Len(calls) : calls[k].path = "direct"

-----------------------------------------------------------------------------
(* Properties of DenseNet.__init__, checked under SpecNet *)

Transitions == {j \in 1..Len(modules) : modules[j].kind = "transition"}

\* channels the block registered just before module j returns for the input it was built for
BlockBefore(j) ==
    BlockOutChannels(modules[j - 1].layers, modules[j - 1].in, EvalEnv)

\* C5 as stated: every transition takes the channels the block before it returns
\* and its output is exactly half of them.
C5_TransitionHalvesExactly ==
    \A j \in Transitions :
        /\ modules[j - 1].kind = "denseblock"
        /\ modules[j].in = BlockBefore(j)
        /\ 2 * modules[j].out = modules[j].in

\* C5 amended: every transition takes the channels the block before it returns and
\* its output is the integer half of them, rounded down: exactly half when the
\* input count is even, half of one less when it is odd.
C5_TransitionHalvesFloor ==
    \A j \in Transitions :
        /\ modules[j - 1].kind = "denseblock"
        /\ modules[j].in = BlockBefore(j)
        /\ modules[j].in % 2 = 0 => 2 * modules[j].out = modules[j].in
        /\ modules[j].in % 2 = 1 => 2 * modules[j].out = modules[j].in - 1

C5_Witness ==
    /\ npc = "built"
    /\ Cardinality(Transitions) = NumBlocks - 1
    /\ \E j \in Transitions : modules[j].in % 2 = 1 /\ modules[j].out >= 1
    /\ \E j \in Transitions : modules[j].in % 2 = 0

RECURSIVE ExpectedWidth(_, _)
\* the width after the first i blocks: grow by each block, halve after all but the last
ExpectedWidth(cfg, i) ==
    IF i = 0 THEN cfg.num_init_features
    ELSE LET w == ExpectedWidth(cfg, i - 1) + cfg.block_config[i] * cfg.growth_rate
         IN IF i < Len(cfg.block_config) THEN w \div 2 ELSE w

\* C6: once the network is built, norm5 is the last module of features and the
\* module before it is the last dense block; the width of norm5 and the input width
\* of the classifier both equal the channels that block returns, which is the
\* configured width grown by every block and halved after all but the last; the
\* forward pass never meets a width it rejects.
C6_HeadWidth ==
    /\ npc # "raised"
    /\ npc \in {"built", "forward", "done"} =>
          LET n == Len(modules) IN
          /\ modules[n].kind = "norm"
          /\ modules[n].name = <<"norm", 5>>
          /\ modules[n - 1].kind = "denseblock"
          /\ modules[n].in = BlockBefore(n)
          /\ classifier.in_features = BlockBefore(n)
          /\ classifier.in_features = ExpectedWidth(ncfg, Len(ncfg.block_config))
    /\ npc = "done" => nx = ncfg.num_classes

C6_Witness ==
    /\ npc = "done"
    /\ \A i \in 1..NumBlocks : ncfg.block_config[i] >= 1
    /\ classifier.in_features # ncfg.num_init_features
    /\ classifier.in_features % 2 = 1

====
